---- MODULE Spec2Model ----
(***************************************************************************)
(* Observer pattern of src/observer/observer.py: ConcreteSubject with its  *)
(* observer list and state, the two concrete observers, and main().        *)
(* One client thread calls the public operations one at a time; notify is  *)
(* modelled one loop iteration per step.                                   *)
(***************************************************************************)
EXTENDS Integers, Sequences, FiniteSets, TLC

VARIABLES
    observers,     \* ConcreteSubject._observers, the list object of line 38
    state,         \* state[s]: what s.state returns (None before the first assignment)
    pc,            \* "idle" | "attach" | "detach" (called, body not yet run) |
                   \* "notify" (inside the for loop) | "raise" (exception propagating)
    self,          \* subject whose method is running
    arg,           \* observer passed to the running attach or detach
    it,            \* list iterator of the for loop: entries already consumed
    via,           \* caller of the running notify: "client" | "some_business_logic"
    exc,           \* exception being propagated
    cycle,         \* history: update calls of the running notify cycle
    startReg,      \* history: the registry when the running cycle started
    lastDraw,      \* history: {value drawn by the last some_business_logic of s}, {} before
    everAttached,  \* history: observers ever passed to s.attach
    detached,      \* history: outcome of the last s.detach(o) since o was last attached
    mainPc,        \* line of main() about to run; "lib" when main is not running
    mainLog        \* history: update calls made during main(), with the state read

vars == <<observers, state, pc, self, arg, it, via, exc, cycle, startReg, lastDraw,
          everAttached, detached, mainPc, mainLog>>

\* Longest registry the client builds.
MaxReg == 3

Subjects == {"s1", "s2"}
Observers == {"observer_a", "observer_b"}
\* The value None of an Optional[int], kept apart from every int a state can be.
None == -1
NoSubject == "no_subject"
NoObserver == "no_observer"

\* randrange(0, 11): an off-by-one upper limit.
randrange_inclusive(lo, hi) == lo .. hi

\* random.randrange(lo, hi): the half-open range.
randrange(lo, hi) == lo .. (hi - 1)

ClassOf(o) == IF o = "observer_a" THEN "ConcreteObserverA" ELSE "ConcreteObserverB"

Range(l) == {l[i] : i \in 1 .. Len(l)}

RECURSIVE Count(_, _)
Count(l, o) ==
    IF l = <<>> THEN 0 ELSE (IF Head(l) = o THEN 1 ELSE 0) + Count(Tail(l), o)

\* list.index as list.remove uses it: scan from the front, 0 when absent.
RECURSIVE list_find(_, _, _)
list_find(l, o, i) ==
    IF i > Len(l) THEN 0
    ELSE IF l[i] = o THEN i
    ELSE list_find(l, o, i + 1)

RECURSIVE list_find_last(_, _, _)
list_find_last(l, o, i) ==
    IF i < 1 THEN 0
    ELSE IF l[i] = o THEN i
    ELSE list_find_last(l, o, i - 1)

\* A removal that deletes the last matching entry instead of the first.
list_remove_last(l, o) ==
    LET i == list_find_last(l, o, Len(l))
    IN  SubSeq(l, 1, i - 1) \o SubSeq(l, i + 1, Len(l))

\* A removal that deletes the final entry of the list, whatever it is.
list_pop(l, o) == SubSeq(l, 1, Len(l) - 1)

\* list.remove(o) on a list that holds o: delete the first matching entry.
list_remove(l, o) ==
    LET i == list_find(l, o, 1)
    IN  SubSeq(l, 1, i - 1) \o SubSeq(l, i + 1, Len(l))

\* An insertion at the front of the list.
list_prepend(l, o) == <<o>> \o l

\* list.append(o)
list_append(l, o) == Append(l, o)

\* self._observers: no instance attribute is ever assigned, so the lookup
\* resolves to the class attribute for every instance.
Registry(s) == observers

\* A state accessor that returns the class attribute instead of the instance's.
state_of_class(s) == None

\* ConcreteSubject.state property.
State(s) == state[s]

\* ConcreteObserverA with the comparison written <=.
ReactsA_le(v) == v <= 3

\* ConcreteObserverA.update condition.
ReactsA(v) == v < 3

\* ConcreteObserverB.update condition.
ReactsB(v) == v = 0 \/ v >= 2

\* Comparing None with an int raises TypeError in both observers
\* (None == 0 is False, so B goes on to None >= 2).
UpdateRaises(o, v) == v = None

Reacts(o, v) ==
    IF ClassOf(o) = "ConcreteObserverA" THEN ReactsA(v) ELSE ReactsB(v)

hist == <<lastDraw, everAttached, detached>>

\* The running call returns to its caller: its frame is gone.
Return ==
    /\ pc' = "idle"
    /\ self' = NoSubject
    /\ arg' = NoObserver
    /\ it' = 0
    /\ via' = "none"
    /\ exc' = "none"
    /\ cycle' = <<>>
    /\ startReg' = <<>>

\* Entering the for loop of notify.
EnterNotify(s, caller) ==
    /\ pc' = "notify"
    /\ self' = s
    /\ it' = 0
    /\ via' = caller
    /\ cycle' = <<>>
    /\ startReg' = Registry(s)
    /\ UNCHANGED <<arg, exc>>

----------------------------------------------------------------------------
\* The state once the module is loaded and the objects are constructed.
Loaded ==
    /\ observers = <<>>
    /\ state = [s \in Subjects |-> None]
    /\ pc = "idle"
    /\ self = NoSubject
    /\ arg = NoObserver
    /\ it = 0
    /\ via = "none"
    /\ exc = "none"
    /\ cycle = <<>>
    /\ startReg = <<>>
    /\ lastDraw = [s \in Subjects |-> {}]
    /\ everAttached = [s \in Subjects |-> {}]
    /\ detached = [s \in Subjects |-> [o \in Observers |-> "no"]]
    /\ mainLog = <<>>

\* The module imported by a client: main() does not run.
Init == Loaded /\ mainPc = "lib"

\* A caller invokes s.attach(o) or s.detach(o).
call(op, s, o) ==
    /\ pc = "idle"
    /\ pc' = op
    /\ self' = s
    /\ arg' = o
    /\ UNCHANGED <<observers, state, it, via, exc, cycle, startReg, hist>>

\* ConcreteSubject.attach
attach ==
    /\ pc = "attach"
    /\ observers' = list_append(Registry(self), arg)
    /\ everAttached' = [everAttached EXCEPT ![self] = @ \cup {arg}]
    /\ detached' = [t \in Subjects |-> [detached[t] EXCEPT ![arg] = "no"]]
    /\ Return
    /\ UNCHANGED <<state, lastDraw, mainPc, mainLog>>

\* A detach that ignores an observer that is not registered.
detach_silent ==
    /\ pc = "detach"
    /\ IF list_find(Registry(self), arg, 1) # 0
       THEN /\ observers' = list_remove(Registry(self), arg)
            /\ detached' = [detached EXCEPT ![self][arg] =
                               IF Count(Registry(self), arg) = 1 THEN "gone" ELSE "remains"]
       ELSE UNCHANGED <<observers, detached>>
    /\ Return
    /\ UNCHANGED <<state, lastDraw, everAttached, mainPc, mainLog>>

\* ConcreteSubject.detach: list.remove raises ValueError when the observer is absent.
detach ==
    /\ pc = "detach"
    /\ IF list_find(Registry(self), arg, 1) # 0
       THEN /\ observers' = list_remove(Registry(self), arg)
            /\ detached' = [detached EXCEPT ![self][arg] =
                               IF Count(Registry(self), arg) = 1 THEN "gone" ELSE "remains"]
            /\ Return
       ELSE /\ pc' = "raise"
            /\ exc' = "ValueError"
            /\ UNCHANGED <<observers, detached, self, arg, it, via, cycle, startReg>>
    /\ UNCHANGED <<state, lastDraw, everAttached, mainPc, mainLog>>

\* ConcreteSubject.notify called from outside the class: enter the for loop.
notify(s) ==
    /\ pc = "idle"
    /\ EnterNotify(s, "client")
    /\ UNCHANGED <<observers, state, hist>>

\* A some_business_logic that draws the value and notifies without assigning it.
some_business_logic_no_assign(s) ==
    /\ pc = "idle"
    /\ \E v \in randrange(0, 10) : lastDraw' = [lastDraw EXCEPT ![s] = {v}]
    /\ EnterNotify(s, "some_business_logic")
    /\ UNCHANGED <<observers, state, everAttached, detached>>

\* ConcreteSubject.some_business_logic: assign the state, then call notify.
some_business_logic(s) ==
    /\ pc = "idle"
    /\ \E v \in randrange(0, 10) :
          /\ state' = [state EXCEPT ![s] = v]
          /\ lastDraw' = [lastDraw EXCEPT ![s] = {v}]
    /\ EnterNotify(s, "some_business_logic")
    /\ UNCHANGED <<observers, everAttached, detached>>

\* One iteration of the for loop of notify: observers.update(self).
update ==
    /\ pc = "notify"
    /\ it < Len(Registry(self))
    /\ LET o == Registry(self)[it + 1]
           v == State(self)
           call_ == [obs |-> o, read |-> v,
                     reacted |-> IF UpdateRaises(o, v) THEN FALSE ELSE Reacts(o, v)]
       IN  /\ cycle' = Append(cycle, call_)
           /\ mainLog' = IF mainPc = "lib" THEN mainLog ELSE Append(mainLog, call_)
           /\ IF UpdateRaises(o, v)
              THEN /\ pc' = "raise"
                   /\ exc' = "TypeError"
                   /\ UNCHANGED it
              ELSE /\ it' = it + 1
                   /\ UNCHANGED <<pc, exc>>
    /\ UNCHANGED <<observers, state, self, arg, via, startReg, hist, mainPc>>

\* The for loop is exhausted: notify (and some_business_logic) return.
notify_return ==
    /\ pc = "notify"
    /\ it >= Len(Registry(self))
    /\ Return
    /\ UNCHANGED <<observers, state, hist, mainPc, mainLog>>

\* The exception reaches a client that catches it and goes on using the objects.
propagate ==
    /\ pc = "raise"
    /\ mainPc = "lib"
    /\ Return
    /\ UNCHANGED <<observers, state, hist, mainPc, mainLog>>

Lib == mainPc = "lib" /\ UNCHANGED <<mainPc, mainLog>>

ClientAttach ==
    \E s \in Subjects, o \in Observers :
        Len(Registry(s)) < MaxReg /\ call("attach", s, o) /\ Lib
ClientDetach == \E s \in Subjects, o \in Observers : call("detach", s, o) /\ Lib
ClientBusinessLogic == \E s \in Subjects : some_business_logic(s) /\ Lib
ClientNotify == \E s \in Subjects : notify(s) /\ Lib

Next ==
    \/ ClientAttach
    \/ ClientDetach
    \/ ClientBusinessLogic
    \/ ClientNotify
    \/ attach
    \/ detach
    \/ update
    \/ notify_return
    \/ propagate

Spec == Init /\ [][Next]_vars

----------------------------------------------------------------------------
\* main(): subject and the two observers are constructed, line 116 is next.
InitMain == Loaded /\ mainPc = "l116"

MainLine(at, step, next) ==
    /\ mainPc = at
    /\ step
    /\ mainPc' = next
    /\ UNCHANGED mainLog

Main116 == MainLine("l116", call("attach", "s1", "observer_a"), "l119")
Main119 == MainLine("l119", call("attach", "s1", "observer_b"), "l121")
Main121 == MainLine("l121", some_business_logic("s1"), "l122")
Main122 == MainLine("l122", some_business_logic("s1"), "l124")
Main124 == MainLine("l124", call("detach", "s1", "observer_a"), "l126")
Main126 == MainLine("l126", some_business_logic("s1"), "end")

\* main() has run its last line and that call has returned.
MainDone == mainPc = "end" /\ pc = "idle"

\* Nothing in main() catches an exception: a state with pc = "raise" is final.
NextMain ==
    \/ Main116
    \/ Main119
    \/ Main121
    \/ Main122
    \/ Main124
    \/ Main126
    \/ attach
    \/ detach
    \/ update
    \/ notify_return

\* The interpreter runs main() to its end: some step is always taken while one is possible.
SpecMain == InitMain /\ [][NextMain]_vars /\ WF_vars(NextMain)

----------------------------------------------------------------------------
\* Properties.

InCycle == pc \in {"notify", "raise"} /\ via # "none"
CycleObs == [i \in 1 .. Len(cycle) |-> cycle[i].obs]
\* The traversal has ended: the iterator is exhausted, or an update raised.
CycleOver ==
    \/ pc = "notify" /\ it >= Len(Registry(self))
    \/ pc = "raise" /\ exc = "TypeError"
OnlySelfUsed ==
    \A t \in Subjects \ {self} :
        everAttached[t] = {} /\ \A o \in Observers : detached[t][o] = "no"

\* C1: a notify cycle of a subject on which alone attach and detach were called
\* updates the registry entries in order (a prefix of the registry at the start
\* of the cycle while it runs) and, once it is over, exactly the registry at its
\* start, one update per entry.
C1_NotifyUpdatesRegistryInOrder ==
    (InCycle /\ OnlySelfUsed) =>
        /\ Len(cycle) <= Len(startReg)
        /\ CycleObs = SubSeq(startReg, 1, Len(cycle))
        /\ CycleOver => CycleObs = startReg

\* C2 as claimed: an observer updated in a notify cycle of a subject was not
\* detached from that subject since it was last attached.
C2_DetachedNeverUpdated ==
    InCycle => \A i \in 1 .. Len(cycle) : detached[self][cycle[i].obs] = "no"

\* C2 as amended: an observer whose only registry entry was removed by a detach
\* on a subject is not updated in any notify cycle of that subject until it is
\* attached again.
C2_SoleEntryDetachedNeverUpdated ==
    InCycle => \A i \in 1 .. Len(cycle) : detached[self][cycle[i].obs] # "gone"

C2_Witness ==
    /\ pc = "notify"
    /\ it >= Len(Registry(self))
    /\ cycle # <<>>
    /\ \E o \in Observers : detached[self][o] = "gone" /\ o \in everAttached[self]

\* C3: attach and detach on one subject leave the registry of every other
\* subject unchanged, and a notify cycle of a subject updates only observers
\* that were attached to that subject.
C3_RegistryPerInstance ==
    [][/\ pc \in {"attach", "detach"} =>
            \A t \in Subjects \ {self} : Registry(t)' = Registry(t)
       /\ (pc = "notify" /\ pc' \in {"notify", "raise"}) =>
            \A i \in 1 .. Len(cycle') : cycle'[i].obs \in everAttached[self]]_vars

\* C4: all update calls of one notify cycle read the same state value, and once
\* some_business_logic has run on the subject that value is the one its last
\* run assigned.
C4_UpdateReadsAssignedState ==
    InCycle =>
        \A i \in 1 .. Len(cycle) :
            /\ \A j \in 1 .. Len(cycle) : cycle[j].read = cycle[i].read
            /\ lastDraw[self] # {} => cycle[i].read \in lastDraw[self]

C4_Witness ==
    /\ pc = "notify"
    /\ via = "some_business_logic"
    /\ Len(cycle) >= 2
    /\ cycle[1].obs # cycle[2].obs
    /\ cycle[2].read = 7

\* C5: a subject's state is None exactly when some_business_logic never ran on
\* it and otherwise an integer from 0 to 9, and every step that changes the
\* state of a subject is the assignment of some_business_logic on that subject.
C5_StateRange ==
    /\ [](\A s \in Subjects :
            /\ (state[s] = None) <=> (lastDraw[s] = {})
            /\ state[s] # None => state[s] \in 0 .. 9)
    /\ [][\A s \in Subjects :
            state'[s] # state[s] =>
                /\ pc = "idle"
                /\ pc' = "notify"
                /\ self' = s
                /\ via' = "some_business_logic"]_vars

C5_Witness == state["s1"] = 9 /\ state["s2"] = None /\ observers # <<>> /\ pc = "idle"

\* C6: detach of an observer the registry holds deletes the first entry equal
\* to it and nothing else: the length drops by one, the entries before it stay
\* in place and the entries after it move up by one.
C6_DetachRemovesFirstOccurrence ==
    [][(pc = "detach" /\ arg \in Range(Registry(self))) =>
          /\ pc' = "idle"
          /\ Len(observers') = Len(observers) - 1
          /\ \E i \in 1 .. Len(observers) :
                /\ observers[i] = arg
                /\ \A j \in 1 .. (i - 1) : observers[j] # arg /\ observers'[j] = observers[j]
                /\ \A j \in (i + 1) .. Len(observers) : observers'[j - 1] = observers[j]]_vars

C6_Witness ==
    /\ pc = "idle"
    /\ observers = <<"observer_b", "observer_a">>
    /\ detached["s1"]["observer_a"] = "remains"
    /\ everAttached["s1"] = {"observer_a"}
    /\ everAttached["s2"] = {"observer_b"}

\* C7: detach of an observer the registry does not hold raises ValueError and
\* changes neither the registry nor any state.
C7_DetachAbsentRaises ==
    [][(pc = "detach" /\ arg \notin Range(Registry(self))) =>
          /\ pc' = "raise"
          /\ exc' = "ValueError"
          /\ observers' = observers
          /\ state' = state]_vars

C7_Witness ==
    /\ pc = "raise"
    /\ exc = "ValueError"
    /\ observers # <<>>
    /\ \E s \in Subjects : state[s] # None

\* C8: for a state from 0 to 9, ConcreteObserverA reacts exactly at 0, 1 and 2
\* and ConcreteObserverB exactly at 0 and at 2 to 9; an update call changes
\* neither the state nor the registry.
C8_ReactionPredicates ==
    /\ [](\A i \in 1 .. Len(cycle) :
            cycle[i].read \in 0 .. 9 =>
                cycle[i].reacted =
                    IF ClassOf(cycle[i].obs) = "ConcreteObserverA"
                    THEN cycle[i].read \in {0, 1, 2}
                    ELSE cycle[i].read \in {0, 2, 3, 4, 5, 6, 7, 8, 9})
    /\ [][Len(cycle') > Len(cycle) => state' = state /\ observers' = observers]_vars

C8_Witness ==
    /\ Len(cycle) = 2
    /\ cycle[1] = [obs |-> "observer_a", read |-> 1, reacted |-> TRUE]
    /\ cycle[2] = [obs |-> "observer_b", read |-> 1, reacted |-> FALSE]

MainObs == [i \in 1 .. Len(mainLog) |-> mainLog[i].obs]

\* C9: main() never raises and runs to its end; by then update was called on
\* A, B, A, B and then B alone, the detach of A has succeeded and the registry
\* is [B].
C9_MainTerminates ==
    /\ [](pc # "raise")
    /\ <>MainDone
    /\ [](MainDone =>
            /\ MainObs = <<"observer_a", "observer_b", "observer_a", "observer_b",
                           "observer_b">>
            /\ detached["s1"]["observer_a"] = "gone"
            /\ observers = <<"observer_b">>)

C9_Witness ==
    /\ MainDone
    /\ mainLog[1].read = 1
    /\ mainLog[3].read = 0
    /\ mainLog[5].read = 5

\* C10 as claimed: no update call reads an absent state.
C10_UpdateNeverSeesAbsentState ==
    \A i \in 1 .. Len(cycle) : cycle[i].read # None

\* C10 as amended: no update call of a notify cycle started by
\* some_business_logic reads an absent state.
C10_BusinessLogicUpdateSeesState ==
    via = "some_business_logic" => \A i \in 1 .. Len(cycle) : cycle[i].read # None

C10_Witness ==
    /\ via = "some_business_logic"
    /\ cycle # <<>>
    /\ \E s \in Subjects : state[s] = None /\ s # self

====
